---- MODULE Spec2Model ----
(***************************************************************************)
(* A model of c-scanner (src/main.cpp): the gitignore-style rule compiler  *)
(* (LoadGitignoreSpec), the matcher (SegmentMatch, TokensMatch,            *)
(* WildMatchPath, GitWildMatch, IsIgnored) and the directory walk          *)
(* (FindAndPrintFiles, PrintFile, PrintError).                             *)
(*                                                                         *)
(* A std::string is a sequence of one-character strings, so that indexing, *)
(* splitting and trimming are computed as the code computes them.  Indices *)
(* named as in the code (pi, ti, si, i) are 0-based; element i of the code *)
(* is element i + 1 of the sequence.                                       *)
(***************************************************************************)
EXTENDS Integers, Sequences, FiniteSets, TLC

VARIABLES
  arg,        \* matcher runs: the arguments of the function under study
  ret,        \* matcher runs: [done |-> FALSE] or the values it returned
  fsys,       \* the file system under the root, fixed during a walk
  self_path,  \* the program's own path (FindAndPrintFiles' self_path)
  patterns,   \* FindAndPrintFiles' patterns: the compiled rule set
  dirs,       \* FindAndPrintFiles' stack of pending directories (top last)
  cur,        \* the directory whose entries are being enumerated
  it,         \* the entries of cur the directory_iterator has yet to yield
  out,        \* what has been written to the output stream, in order
  cerr,       \* what has been written to std::cerr, in order
  pc,         \* where FindAndPrintFiles is
  visited,    \* history: every entry the for-loop body ran on, in order
  expanded    \* history: every directory popped from dirs, in order

matchVars == <<arg, ret>>
walkVars == <<fsys, self_path, patterns, dirs, cur, it, out, cerr, pc, visited, expanded>>
vars == <<arg, ret, fsys, self_path, patterns, dirs, cur, it, out, cerr, pc, visited, expanded>>

----------------------------------------------------------------------------
(* Bounds of the model.                                                    *)

MaxSegLen == 3      \* longest pattern segment and text segment drawn for SegmentMatch
MaxPTokens == 3     \* most pattern tokens drawn for TokensMatch
MaxSTokens == 4     \* most path tokens drawn for TokensMatch
MaxLineLen == 3     \* longest rules-file line drawn character by character
MaxLines == 2       \* most lines of a rules file built from RuleLines
MaxDepth == 2       \* most segments of a relative path drawn for IsIgnored
MaxFaults == 1      \* most entries of a file system that misbehave

----------------------------------------------------------------------------
(* Strings.                                                                *)

npos == -1

StringsUpTo(A, n) == UNION {[1..k -> A] : k \in 0..n}

SeqsBetween(A, lo, hi) == UNION {[1..k -> A] : k \in lo..hi}

Substr(s, i) == SubSeq(s, i + 1, Len(s))

StartsWith(s, prefix) ==
  Len(s) >= Len(prefix) /\ SubSeq(s, 1, Len(prefix)) = prefix

EndsWith(s, suffix) ==
  Len(s) >= Len(suffix) /\ SubSeq(s, Len(s) - Len(suffix) + 1, Len(s)) = suffix

IsSpace(c) == c \in {" ", "\t", "\r", "\n"}

RECURSIVE TrimLeft(_, _)
TrimLeft(s, i) ==
  IF i < Len(s) /\ IsSpace(s[i + 1]) THEN TrimLeft(s, i + 1) ELSE i

RECURSIVE TrimRight(_, _, _)
TrimRight(s, i, j) ==
  IF j > i /\ IsSpace(s[j]) THEN TrimRight(s, i, j - 1) ELSE j

Trim(s) ==
  LET i == TrimLeft(s, 0)
      j == TrimRight(s, i, Len(s))
  IN SubSeq(s, i + 1, j)

NormalizeSlashes(s) == [k \in 1..Len(s) |-> IF s[k] = "\\" THEN "/" ELSE s[k]]

RECURSIVE SplitLoop(_, _, _, _, _)
SplitLoop(s, delim, k, outv, curv) ==
  IF k > Len(s) THEN Append(outv, curv)
  ELSE IF s[k] = delim THEN SplitLoop(s, delim, k + 1, Append(outv, curv), <<>>)
  ELSE SplitLoop(s, delim, k + 1, outv, Append(curv, s[k]))

Split(s, delim) == SplitLoop(s, delim, 1, <<>>, <<>>)

RECURSIVE JoinSegments(_)
JoinSegments(segs) ==
  IF Len(segs) = 0 THEN <<>>
  ELSE IF Len(segs) = 1 THEN segs[1]
  ELSE segs[1] \o <<"/">> \o JoinSegments(Tail(segs))

\* rel is the sequence of file names from the root to the entry.
PathToPosix(rel) == JoinSegments(rel)

----------------------------------------------------------------------------
(* The wildcard engine.                                                    *)

RECURSIVE SkipStars(_, _)
SkipStars(pat, pi) ==
  IF pi < Len(pat) /\ pat[pi + 1] = "*" THEN SkipStars(pat, pi + 1) ELSE pi

RECURSIVE SegmentLoop(_, _, _, _, _, _)
SegmentLoop(pat, text, pi, ti, star_pi, star_ti) ==
  IF ti < Len(text)
  THEN IF pi < Len(pat) /\ (pat[pi + 1] = "?" \/ pat[pi + 1] = text[ti + 1])
       THEN SegmentLoop(pat, text, pi + 1, ti + 1, star_pi, star_ti)
       ELSE IF pi < Len(pat) /\ pat[pi + 1] = "*"
       THEN SegmentLoop(pat, text, pi + 1, ti, pi + 1, ti)
       ELSE IF star_pi # npos
       THEN SegmentLoop(pat, text, star_pi, star_ti + 1, star_pi, star_ti + 1)
       ELSE FALSE
  ELSE SkipStars(pat, pi) = Len(pat)

SegmentMatch(pat, text) == SegmentLoop(pat, text, 0, 0, npos, npos)

DoubleStar == <<"*", "*">>

\* A double star that must absorb at least one path segment.
RECURSIVE TokensMatch_StarTakesOne(_, _, _, _)
TokensMatch_StarTakesOne(ptokens, stokens, pi, si) ==
  IF pi = Len(ptokens) THEN si = Len(stokens)
  ELSE IF ptokens[pi + 1] = DoubleStar
  THEN \E k \in (si + 1)..Len(stokens) :
         TokensMatch_StarTakesOne(ptokens, stokens, pi + 1, k)
  ELSE IF si = Len(stokens) THEN FALSE
  ELSE IF ~SegmentMatch(ptokens[pi + 1], stokens[si + 1]) THEN FALSE
  ELSE TokensMatch_StarTakesOne(ptokens, stokens, pi + 1, si + 1)

RECURSIVE TokensMatch(_, _, _, _)
TokensMatch(ptokens, stokens, pi, si) ==
  IF pi = Len(ptokens) THEN si = Len(stokens)
  ELSE IF ptokens[pi + 1] = DoubleStar
  THEN \E k \in si..Len(stokens) : TokensMatch(ptokens, stokens, pi + 1, k)
  ELSE IF si = Len(stokens) THEN FALSE
  ELSE IF ~SegmentMatch(ptokens[pi + 1], stokens[si + 1]) THEN FALSE
  ELSE TokensMatch(ptokens, stokens, pi + 1, si + 1)

WildMatchPath(pattern, path) ==
  TokensMatch(Split(pattern, "/"), Split(path, "/"), 0, 0)

\* An unanchored match tried at every directory boundary even for an
\* anchored rule.
GitWildMatch_IgnoresAnchor(p, rel_path, is_dir) ==
  IF p.dir_only /\ ~is_dir THEN FALSE
  ELSE LET path == IF EndsWith(rel_path, <<"/">>) /\ ~p.dir_only
                   THEN SubSeq(rel_path, 1, Len(rel_path) - 1)
                   ELSE rel_path
       IN \/ WildMatchPath(p.pattern, path)
          \/ \E i \in 0..(Len(path) - 1) :
               /\ path[i + 1] = "/"
               /\ i + 1 < Len(path)
               /\ WildMatchPath(p.pattern, Substr(path, i + 1))

\* The dir_only test of line 146 left out.
GitWildMatch_NoDirOnlyTest(p, rel_path, is_dir) ==
  LET path == IF EndsWith(rel_path, <<"/">>) /\ ~p.dir_only
              THEN SubSeq(rel_path, 1, Len(rel_path) - 1)
              ELSE rel_path
  IN IF p.anchored THEN WildMatchPath(p.pattern, path)
     ELSE \/ WildMatchPath(p.pattern, path)
          \/ \E i \in 0..(Len(path) - 1) :
               /\ path[i + 1] = "/"
               /\ i + 1 < Len(path)
               /\ WildMatchPath(p.pattern, Substr(path, i + 1))

GitWildMatch(p, rel_path, is_dir) ==
  IF p.dir_only /\ ~is_dir THEN FALSE
  ELSE LET path == IF EndsWith(rel_path, <<"/">>) /\ ~p.dir_only
                   THEN SubSeq(rel_path, 1, Len(rel_path) - 1)
                   ELSE rel_path
       IN IF p.anchored THEN WildMatchPath(p.pattern, path)
          ELSE \/ WildMatchPath(p.pattern, path)
               \/ \E i \in 0..(Len(path) - 1) :
                    /\ path[i + 1] = "/"
                    /\ i + 1 < Len(path)
                    /\ WildMatchPath(p.pattern, Substr(path, i + 1))

\* The first matching rule decides, later ones are not consulted.
RECURSIVE IsIgnored_FirstMatchWins(_, _, _)
IsIgnored_FirstMatchWins(pats, rel_posix, is_dir) ==
  IF Len(pats) = 0 THEN FALSE
  ELSE IF GitWildMatch(Head(pats), rel_posix, is_dir) THEN ~Head(pats).negated
  ELSE IsIgnored_FirstMatchWins(Tail(pats), rel_posix, is_dir)

RECURSIVE IsIgnoredLoop(_, _, _, _, _)
IsIgnoredLoop(pats, rel_posix, is_dir, k, matched) ==
  IF k > Len(pats) THEN matched
  ELSE IF GitWildMatch(pats[k], rel_posix, is_dir)
  THEN IsIgnoredLoop(pats, rel_posix, is_dir, k + 1, ~pats[k].negated)
  ELSE IsIgnoredLoop(pats, rel_posix, is_dir, k + 1, matched)

IsIgnored(pats, rel_posix, is_dir) == IsIgnoredLoop(pats, rel_posix, is_dir, 1, FALSE)

----------------------------------------------------------------------------
(* The rule compiler.                                                      *)

RECURSIVE StripLeadingSlashes(_)
StripLeadingSlashes(line) ==
  IF Len(line) > 0 /\ line[1] = "/" THEN StripLeadingSlashes(Tail(line)) ELSE line

\* The body of LoadGitignoreSpec's loop on one line std::getline returned:
\* the rules it pushes, none or one.
CompileLine(raw) ==
  LET line1 == Trim(raw)
  IN IF Len(line1) = 0 THEN <<>>
     ELSE IF line1[1] = "#" THEN <<>>
     ELSE LET neg == line1[1] = "!"
              line2 == IF neg THEN Trim(Tail(line1)) ELSE line1
          IN IF neg /\ Len(line2) = 0 THEN <<>>
             ELSE LET slash == EndsWith(line2, <<"/">>)
                      line3 == IF slash THEN SubSeq(line2, 1, Len(line2) - 1) ELSE line2
                      anchored == StartsWith(line3, <<"/">>)
                      line4 == IF anchored THEN StripLeadingSlashes(line3) ELSE line3
                      line5 == NormalizeSlashes(line4)
                      dir_only == IF line5 = DoubleStar THEN FALSE ELSE slash
                  IN <<[pattern |-> line5, negated |-> neg,
                        dir_only |-> dir_only, anchored |-> anchored]>>

RECURSIVE CompileLines(_)
CompileLines(lines) ==
  IF Len(lines) = 0 THEN <<>>
  ELSE CompileLine(Head(lines)) \o CompileLines(Tail(lines))

\* gitignore is what the root holds under the name .gitignore: whether it is
\* there as a regular file, whether it opens, whether std::getline can read
\* it, and its lines.
LoadGitignoreSpec(gitignore) ==
  IF ~gitignore.regular THEN <<>>
  ELSE IF ~gitignore.opens THEN <<>>
  ELSE IF ~gitignore.reads THEN <<>>
  ELSE CompileLines(gitignore.lines)

----------------------------------------------------------------------------
(* Values of the variables a run does not use.                             *)

NoFileSystem == [entries |-> {}, lines |-> <<>>, faults |-> {}]

WalkIdle ==
  /\ fsys = NoFileSystem
  /\ self_path = <<>>
  /\ patterns = <<>>
  /\ dirs = <<>>
  /\ cur = <<>>
  /\ it = {}
  /\ out = <<>>
  /\ cerr = <<>>
  /\ pc = "idle"
  /\ visited = <<>>
  /\ expanded = <<>>

MatchIdle ==
  /\ arg = [fn |-> "none"]
  /\ ret = [done |-> FALSE]

----------------------------------------------------------------------------
(* SegmentMatch on every short pattern segment and text segment.  A file   *)
(* name may hold any character but '/', the characters '*' and '?' too.    *)

SegChars == {"a", "b", "*", "?"}

SegInputs ==
  {[fn |-> "SegmentMatch", pat |-> p, text |-> t] :
     p \in StringsUpTo(SegChars, MaxSegLen), t \in StringsUpTo(SegChars, MaxSegLen)}

InitSeg ==
  /\ arg \in SegInputs
  /\ ret = [done |-> FALSE]
  /\ WalkIdle

CallSegmentMatch ==
  /\ arg.fn = "SegmentMatch"
  /\ ~ret.done
  /\ ret' = [done |-> TRUE, val |-> SegmentMatch(arg.pat, arg.text)]
  /\ UNCHANGED <<arg, walkVars>>

NextSeg == CallSegmentMatch

SegSpec == InitSeg /\ [][NextSeg]_vars

\* The glob relation: '*' matches any run of text characters, '?' exactly
\* one, every other pattern character itself.
RECURSIVE Glob(_, _)
Glob(p, t) ==
  IF Len(p) = 0 THEN Len(t) = 0
  ELSE IF Head(p) = "*" THEN \E k \in 0..Len(t) : Glob(Tail(p), Substr(t, k))
  ELSE IF Len(t) = 0 THEN FALSE
  ELSE (Head(p) = "?" \/ Head(p) = Head(t)) /\ Glob(Tail(p), Tail(t))

\* C9: SegmentMatch(pattern, text) equals the glob relation for every pattern
\* segment and every text segment, text segments that hold '*' or '?'
\* included; an empty pattern matches only the empty text.
C9_SegmentMatchIsGlob ==
  (arg.fn = "SegmentMatch" /\ ret.done) =>
     /\ ret.val = Glob(arg.pat, arg.text)
     /\ (arg.pat = <<>> => (ret.val <=> arg.text = <<>>))

----------------------------------------------------------------------------
(* TokensMatch on every short pattern token sequence and path token        *)
(* sequence, and on the sequences of the documented examples.  Split never *)
(* returns an empty sequence.                                              *)

PTokens == {DoubleStar, <<"a">>, <<"b">>, <<"*">>, <<"a", "*">>}
STokens == {<<"a">>, <<"b">>, <<"a", "b">>}

TokExamples ==
  {[fn |-> "TokensMatch", ptokens |-> Split(e[1], "/"), stokens |-> Split(e[2], "/")] :
     e \in { <<<<"a", "/", "*", "*", "/", "b">>, <<"a", "/", "b">>>>,
             <<<<"a", "/", "*", "*", "/", "b">>, <<"a", "/", "x", "/", "b">>>>,
             <<<<"a", "/", "*", "*", "/", "b">>, <<"a", "/", "x", "/", "y", "/", "b">>>>,
             <<<<"a", "*", "b">>, <<"a", "/", "b">>>>,
             <<<<"a", "*", "b">>, <<"a", "x", "b">>>> }}

TokInputs ==
  {[fn |-> "TokensMatch", ptokens |-> p, stokens |-> s] :
     p \in SeqsBetween(PTokens, 1, MaxPTokens), s \in SeqsBetween(STokens, 1, MaxSTokens)}
  \cup TokExamples

InitTok ==
  /\ arg \in TokInputs
  /\ ret = [done |-> FALSE]
  /\ WalkIdle

CallTokensMatch ==
  /\ arg.fn = "TokensMatch"
  /\ ~ret.done
  /\ ret' = [done |-> TRUE, val |-> TokensMatch(arg.ptokens, arg.stokens, 0, 0)]
  /\ UNCHANGED <<arg, walkVars>>

NextTok == CallTokensMatch

TokSpec == InitTok /\ [][NextTok]_vars

RECURSIVE SumUpTo(_, _)
SumUpTo(w, n) == IF n = 0 THEN 0 ELSE w[n] + SumUpTo(w, n - 1)

\* An alignment gives every pattern token the number of path segments it
\* takes: any number for "**", one for every other token, which must match
\* that segment; the numbers add up to the length of the path.
Aligns(P, S) ==
  LET stars == {i \in 1..Len(P) : P[i] = DoubleStar}
  IN \E c \in [stars -> 0..Len(S)] :
       LET w == [i \in 1..Len(P) |-> IF i \in stars THEN c[i] ELSE 1]
       IN /\ SumUpTo(w, Len(P)) = Len(S)
          /\ \A i \in (1..Len(P)) \ stars :
               SegmentMatch(P[i], S[SumUpTo(w, i - 1) + 1])

\* C6: TokensMatch(P, S, 0, 0) is true iff P and S can be aligned with each
\* "**" absorbing zero or more whole segments and every other token
\* matching exactly one segment; a pattern without "**" matches only
\* sequences of its own length.
C6_TokensMatchIsAlignment ==
  (arg.fn = "TokensMatch" /\ ret.done) =>
     /\ ret.val = Aligns(arg.ptokens, arg.stokens)
     /\ ((\A i \in 1..Len(arg.ptokens) : arg.ptokens[i] # DoubleStar) /\ ret.val
           => Len(arg.stokens) = Len(arg.ptokens))

C6_Witness ==
  /\ arg.fn = "TokensMatch" /\ ret.done /\ ret.val
  /\ arg.ptokens = <<<<"a">>, DoubleStar, <<"b">>>>
  /\ arg.stokens = <<<<"a">>, <<"x">>, <<"y">>, <<"b">>>>

----------------------------------------------------------------------------
(* LoadGitignoreSpec and IsIgnored on rules files and on relative paths as *)
(* FindAndPrintFiles forms them: the names from the root to the entry,     *)
(* joined by '/'.                                                          *)

LineChars == {"a", "/", "*", "!", " ", "#", "\\"}

RuleLines ==
  { <<"a">>, <<"!", "a">>, <<"/", "a">>, <<"a", "/">>, <<"!", "b">>,
    <<"*">>, <<"*", "*", "/">>, <<"a", "/", "b">> }

S_build == <<"b", "u", "i", "l", "d">>
S_src == <<"s", "r", "c">>
S_logs == <<"l", "o", "g", "s">>

RuleFileExamples ==
  { <<S_build>>, <<<<"/">> \o S_build>>, <<S_logs \o <<"/">>>>,
    <<<<"/">>, <<"a">>>>, <<<<"/", "/">>, <<"a">>>>,
    <<<<"/", "*", "*", "/">>>>, <<<<"a", "/", "*", "*">>>> }

RuleFiles ==
  SeqsBetween(RuleLines, 0, MaxLines)
    \cup {<<l>> : l \in StringsUpTo(LineChars, MaxLineLen)}
    \cup RuleFileExamples

RelNames == {<<"a">>, <<"b">>}

RelPaths ==
  SeqsBetween(RelNames, 1, MaxDepth)
    \cup {<<S_build>>, <<S_src, S_build>>, <<S_logs>>}

RuleInputs ==
  {[fn |-> "IsIgnored", lines |-> f, rel |-> r, is_dir |-> d] :
     f \in RuleFiles, r \in RelPaths, d \in BOOLEAN}

InitRule ==
  /\ arg \in RuleInputs
  /\ ret = [done |-> FALSE, loaded |-> FALSE]
  /\ WalkIdle

CallLoadGitignoreSpec ==
  /\ arg.fn = "IsIgnored"
  /\ ~ret.loaded
  /\ ret' = [done |-> FALSE, loaded |-> TRUE,
             patterns |-> LoadGitignoreSpec([regular |-> TRUE, opens |-> TRUE,
                                             reads |-> TRUE, lines |-> arg.lines])]
  /\ UNCHANGED <<arg, walkVars>>

CallIsIgnored ==
  /\ arg.fn = "IsIgnored"
  /\ ret.loaded
  /\ ~ret.done
  /\ ret' = [ret EXCEPT !.done = TRUE] @@
            [matches |-> [k \in 1..Len(ret.patterns) |->
                            GitWildMatch(ret.patterns[k], PathToPosix(arg.rel), arg.is_dir)],
             ignored |-> IsIgnored(ret.patterns, PathToPosix(arg.rel), arg.is_dir)]
  /\ UNCHANGED <<arg, walkVars>>

NextRule == CallLoadGitignoreSpec \/ CallIsIgnored

RuleSpec == InitRule /\ [][NextRule]_vars

Queried == arg.fn = "IsIgnored" /\ ret.done

MaxOf(S) == CHOOSE m \in S : \A n \in S : n <= m

\* C1: IsIgnored returns false when no rule structurally matches, and
\* otherwise the negation of the negated flag of the last matching rule;
\* rules [a, !a] leave path a not ignored, rules [!a, a] leave it ignored.
C1_LastMatchWins ==
  Queried =>
    LET M == {k \in 1..Len(ret.patterns) : ret.matches[k]}
    IN /\ ret.ignored = (IF M = {} THEN FALSE ELSE ~ret.patterns[MaxOf(M)].negated)
       /\ (arg.lines = <<<<"a">>, <<"!", "a">>>> /\ arg.rel = <<<<"a">>>> => ~ret.ignored)
       /\ (arg.lines = <<<<"!", "a">>, <<"a">>>> /\ arg.rel = <<<<"a">>>> => ret.ignored)

C1_Witness ==
  /\ Queried
  /\ arg.lines = <<<<"a">>, <<"!", "a">>>>
  /\ arg.rel = <<<<"a">>>>
  /\ ret.matches = <<TRUE, TRUE>>
  /\ ~ret.ignored

\* The pattern's segments against the path's segments from segment k + 1 on.
MatchesFrom(r, rel, k) ==
  TokensMatch(Split(r.pattern, "/"), SubSeq(rel, k + 1, Len(rel)), 0, 0)

RECURSIVE LastNonBlank(_)
LastNonBlank(line) ==
  IF Len(line) = 0 THEN ""
  ELSE IF IsSpace(line[Len(line)]) THEN LastNonBlank(SubSeq(line, 1, Len(line) - 1))
  ELSE line[Len(line)]

\* C7: a rule with dirOnly = true never matches when isDirectory is false;
\* the rule set of the one line logs/ ignores a directory named logs and
\* not a regular file named logs; a line ending in '/' is stored with
\* dirOnly = true unless its pattern reduces to exactly "**", which is
\* stored with dirOnly = false and matches files too.
C7_DirectoryOnly ==
  Queried =>
    /\ \A k \in 1..Len(ret.patterns) :
         ret.patterns[k].dir_only /\ ~arg.is_dir => ~ret.matches[k]
    /\ (arg.lines = <<S_logs \o <<"/">>>> /\ arg.rel = <<S_logs>>
          => ret.ignored = arg.is_dir)
    /\ (Len(arg.lines) = 1 /\ Len(ret.patterns) = 1 =>
          /\ ret.patterns[1].dir_only =
               (LastNonBlank(arg.lines[1]) = "/" /\ ret.patterns[1].pattern # DoubleStar)
          /\ (ret.patterns[1].pattern = DoubleStar => ret.matches[1]))

C7_Witness ==
  /\ Queried
  /\ arg.lines = <<S_logs \o <<"/">>>>
  /\ arg.rel = <<S_logs>>
  /\ ~arg.is_dir
  /\ ret.patterns[1].dir_only
  /\ ~ret.ignored

\* C10: every rule stored in the compiled rule set has a non-empty pattern;
\* a line that reduces to nothing (only '/' or '//') is discarded and the
\* remaining rules keep the order of their lines.
C10_NoEmptyPattern ==
  (arg.fn = "IsIgnored" /\ ret.loaded) =>
    /\ \A k \in 1..Len(ret.patterns) : Len(ret.patterns[k].pattern) > 0
    /\ (arg.lines = <<<<"/", "/">>, <<"a">>>> =>
          ret.patterns = <<[pattern |-> <<"a">>, negated |-> FALSE,
                            dir_only |-> FALSE, anchored |-> FALSE]>>)

----------------------------------------------------------------------------
(* The file systems of the walk.  An entry is a path (the names from the   *)
(* root to it) and a kind: "dir", "file" (a regular file) or "other"       *)
(* (neither, or a kind that cannot be determined).  lines is the content   *)
(* of the root's .gitignore when it is there.  faults names the entries    *)
(* that misbehave:                                                         *)
(*   "open"    a file std::ifstream cannot open;                           *)
(*   "read"    a file that opens and whose content cannot be read;         *)
(*   "throw"   a file that opens and on which PrintFile's                  *)
(*             fs::weakly_canonical(p) fails;                              *)
(*   "denied"  a directory whose enumeration yields nothing;               *)
(*   "ioerr"   a directory whose enumeration fails at some it.increment.   *)

N_gitignore == <<".", "g", "i", "t", "i", "g", "n", "o", "r", "e">>
N_a_log == <<"a", ".", "l", "o", "g">>
N_keep_log == <<"k", "e", "e", "p", ".", "l", "o", "g">>
N_b_txt == <<"b", ".", "t", "x", "t">>
N_node_modules == <<"n", "o", "d", "e", "_", "m", "o", "d", "u", "l", "e", "s">>
N_tty == <<"t", "t", "y">>

L_star_log == <<"*", ".", "l", "o", "g">>
L_not_keep_log == <<"!">> \o N_keep_log
L_node_modules_dir == N_node_modules \o <<"/">>

Root == <<>>

File(p) == [path |-> p, kind |-> "file"]
Dir(p) == [path |-> p, kind |-> "dir"]
Other(p) == [path |-> p, kind |-> "other"]

TreeLogs == {File(<<N_a_log>>), File(<<N_keep_log>>), File(<<N_b_txt>>)}

TreeModules ==
  { Dir(<<N_node_modules>>), File(<<N_node_modules, N_keep_log>>),
    Dir(<<S_src>>), File(<<S_src, N_a_log>>), Other(<<S_src, N_tty>>),
    Dir(<<S_src, N_node_modules>>), File(<<S_src, N_node_modules, N_b_txt>>) }

Trees == {TreeLogs, TreeModules}

RulesLogs == <<L_star_log, L_not_keep_log>>
RulesModules == <<L_node_modules_dir, L_not_keep_log>>

FaultKinds(e) ==
  IF e.kind = "file" THEN {"open", "read", "throw"}
  ELSE IF e.kind = "dir" THEN {"denied", "ioerr"}
  ELSE {}

FaultSets(entries) ==
  {F \in SUBSET (UNION {{[path |-> e.path, kind |-> k] : k \in FaultKinds(e)} :
                          e \in entries}) :
     /\ Cardinality(F) <= MaxFaults
     /\ \A f, g \in F : f.path = g.path => f = g}

WithFaults(entries, lines) ==
  {[entries |-> entries, lines |-> lines, faults |-> F] : F \in FaultSets(entries)}

FileSystems ==
  UNION {WithFaults(t, <<>>) : t \in Trees}
  \cup
  UNION {WithFaults(t \cup {File(<<N_gitignore>>)}, l) :
           t \in Trees, l \in {RulesLogs, RulesModules}}

\* The program's own file lies outside the root or is a regular file directly
\* under it.
SelfOutside == <<<<".", ".">>, <<"s", "c", "a", "n">>>>

SelfPaths(fs) ==
  {SelfOutside}
    \cup {e.path : e \in {x \in fs.entries : x.kind = "file" /\ Len(x.path) = 1}}

Fault(p) ==
  IF \E f \in fsys.faults : f.path = p
  THEN (CHOOSE f \in fsys.faults : f.path = p).kind
  ELSE "none"

Children(d) ==
  {e \in fsys.entries : Len(e.path) = Len(d) + 1 /\ SubSeq(e.path, 1, Len(d)) = d}

GitignoreOf(fs) ==
  [regular |-> File(<<N_gitignore>>) \in fs.entries,
   opens |-> ~([path |-> <<N_gitignore>>, kind |-> "open"] \in fs.faults),
   reads |-> ~([path |-> <<N_gitignore>>, kind |-> "read"] \in fs.faults),
   lines |-> fs.lines]

----------------------------------------------------------------------------
(* FindAndPrintFiles.                                                      *)

InitWalk ==
  /\ fsys \in FileSystems
  /\ self_path \in SelfPaths(fsys)
  /\ patterns = <<>>
  /\ dirs = <<>>
  /\ cur = <<>>
  /\ it = {}
  /\ out = <<>>
  /\ cerr = <<>>
  /\ pc = "start"
  /\ visited = <<>>
  /\ expanded = <<>>
  /\ MatchIdle

\* Lines 232-238: compile the rules, seed the stack with the root.
LoadAndSeed ==
  /\ pc = "start"
  /\ patterns' = LoadGitignoreSpec(GitignoreOf(fsys))
  /\ dirs' = <<Root>>
  /\ pc' = "loop"
  /\ UNCHANGED <<fsys, self_path, cur, it, out, cerr, visited, expanded, matchVars>>

\* Lines 240-245: pop the top directory and open its iterator.
TakeDirectory ==
  /\ pc = "loop"
  /\ dirs # <<>>
  /\ LET d == dirs[Len(dirs)]
     IN /\ cur' = d
        /\ it' = IF Fault(d) = "denied" THEN {} ELSE Children(d)
        /\ expanded' = Append(expanded, d)
  /\ dirs' = SubSeq(dirs, 1, Len(dirs) - 1)
  /\ pc' = "iter"
  /\ UNCHANGED <<fsys, self_path, patterns, out, cerr, visited, matchVars>>

\* Line 256: the entry's relative path in POSIX form, and whether it is ignored.
Ignored(e) == IsIgnored(patterns, PathToPosix(e.path), e.kind = "dir")

\* Lines 269-271: the self-path test; a path that cannot be resolved is empty.
IsSelf(e) ==
  LET can_p == IF Fault(e.path) = "throw" THEN <<>> ELSE e.path
      can_self == self_path
  IN can_self # <<>> /\ can_p = can_self

\* The iterator yields e and the loop body runs on it.
Yield(e) ==
  /\ pc = "iter"
  /\ e \in it
  /\ it' = it \ {e}
  /\ visited' = Append(visited, e.path)
  /\ UNCHANGED <<fsys, self_path, patterns, cur, expanded, matchVars>>

\* Lines 256-260.
SkipIgnored(e) ==
  /\ Yield(e)
  /\ Ignored(e)
  /\ UNCHANGED <<dirs, out, cerr, pc>>

\* A directory pushed whether or not it is ignored.
EnqueueDirectory_Unchecked(e) ==
  /\ Yield(e)
  /\ e.kind = "dir"
  /\ dirs' = Append(dirs, e.path)
  /\ UNCHANGED <<out, cerr, pc>>

\* Lines 262-265.
EnqueueDirectory(e) ==
  /\ Yield(e)
  /\ e.kind = "dir"
  /\ ~Ignored(e)
  /\ dirs' = Append(dirs, e.path)
  /\ UNCHANGED <<out, cerr, pc>>

\* Line 267.
SkipOther(e) ==
  /\ Yield(e)
  /\ e.kind = "other"
  /\ ~Ignored(e)
  /\ UNCHANGED <<dirs, out, cerr, pc>>

\* Lines 269-271.
SkipSelf(e) ==
  /\ Yield(e)
  /\ e.kind = "file"
  /\ IsSelf(e)
  /\ ~Ignored(e)
  /\ UNCHANGED <<dirs, out, cerr, pc>>

\* Lines 273-277 and PrintError: the file does not open.
ReportOpenError(e) ==
  /\ Yield(e)
  /\ e.kind = "file"
  /\ ~IsSelf(e)
  /\ Fault(e.path) = "open"
  /\ ~Ignored(e)
  /\ out' = Append(out, [kind |-> "error", path |-> e.path])
  /\ cerr' = Append(cerr, [kind |-> "error", path |-> e.path])
  /\ UNCHANGED <<dirs, pc>>

\* Lines 278-279 and PrintFile: the resolved path and the fenced block.  A
\* failing read leaves buf empty or zero-filled and is not reported.
PrintFile(e) ==
  /\ Yield(e)
  /\ e.kind = "file"
  /\ ~IsSelf(e)
  /\ Fault(e.path) \in {"none", "read"}
  /\ ~Ignored(e)
  /\ out' = Append(out, [kind |-> "block", path |-> e.path,
                         body |-> IF Fault(e.path) = "read" THEN "damaged" ELSE "contents"])
  /\ UNCHANGED <<dirs, cerr, pc>>

\* Line 210: fs::weakly_canonical(p) without an error_code throws, nothing
\* catches it, and the exception leaves FindAndPrintFiles and main.
PrintFileThrows(e) ==
  /\ Yield(e)
  /\ e.kind = "file"
  /\ ~IsSelf(e)
  /\ Fault(e.path) = "throw"
  /\ ~Ignored(e)
  /\ pc' = "aborted"
  /\ UNCHANGED <<dirs, out, cerr>>

\* Lines 245-246: it.increment(ec) fails after some entry; the for-loop ends.
IncrementFails ==
  /\ pc = "iter"
  /\ Fault(cur) = "ioerr"
  /\ it # {}
  /\ it # Children(cur)
  /\ it' = {}
  /\ pc' = "loop"
  /\ UNCHANGED <<fsys, self_path, patterns, dirs, cur, out, cerr, visited, expanded, matchVars>>

\* Line 245: the iterator reached its end.
EndOfDirectory ==
  /\ pc = "iter"
  /\ it = {}
  /\ pc' = "loop"
  /\ UNCHANGED <<fsys, self_path, patterns, dirs, cur, it, out, cerr, visited, expanded, matchVars>>

\* Line 240: the stack is empty and FindAndPrintFiles returns.
Finish ==
  /\ pc = "loop"
  /\ dirs = <<>>
  /\ pc' = "done"
  /\ UNCHANGED <<fsys, self_path, patterns, dirs, cur, it, out, cerr, visited, expanded, matchVars>>

Next ==
  \/ LoadAndSeed
  \/ TakeDirectory
  \/ \E e \in it : SkipIgnored(e)
  \/ \E e \in it : EnqueueDirectory(e)
  \/ \E e \in it : SkipOther(e)
  \/ \E e \in it : SkipSelf(e)
  \/ \E e \in it : ReportOpenError(e)
  \/ \E e \in it : PrintFile(e)
  \/ \E e \in it : PrintFileThrows(e)
  \/ IncrementFails
  \/ EndOfDirectory
  \/ Finish

Spec == InitWalk /\ [][Next]_vars

----------------------------------------------------------------------------
(* Properties of the walk.                                                 *)

\* The paths handed to the output, as a fenced block or as an error line.
Emitted == {out[k].path : k \in 1..Len(out)}

Blocks == {out[k].path : k \in {j \in 1..Len(out) : out[j].kind = "block"}}

IgnoredDir(p) == IsIgnored(patterns, PathToPosix(p), TRUE)

\* Some directory strictly above p, below the root, is ignored.
AncestorIgnored(p) == \E k \in 1..(Len(p) - 1) : IgnoredDir(SubSeq(p, 1, k))

\* C2: no directory for which IsIgnored is true is ever pushed on the
\* pending-directory work list (the root, which has no relative path, is
\* the seed), so no file with an ignored directory among its ancestors is
\* ever emitted, whatever the rules say of the file itself.
C2_SubtreePruning ==
  /\ \A k \in 1..Len(dirs) :
       dirs[k] # Root => ~IgnoredDir(dirs[k]) /\ ~AncestorIgnored(dirs[k])
  /\ \A k \in 1..Len(expanded) :
       expanded[k] # Root => ~IgnoredDir(expanded[k]) /\ ~AncestorIgnored(expanded[k])
  /\ \A k \in 1..Len(out) : ~AncestorIgnored(out[k].path)

C2_Witness ==
  /\ pc = "done"
  /\ fsys.lines = RulesModules
  /\ File(<<N_node_modules, N_keep_log>>) \in fsys.entries
  /\ \E k \in 1..Len(visited) : visited[k] = <<N_node_modules>>
  /\ IgnoredDir(<<N_node_modules>>)
  /\ ~IsIgnored(patterns, PathToPosix(<<N_node_modules, N_keep_log>>), FALSE)
  /\ <<N_node_modules, N_keep_log>> \notin Emitted
  /\ File(<<S_src, N_node_modules, N_b_txt>>) \in fsys.entries
  /\ ~IsIgnored(patterns, PathToPosix(<<S_src, N_node_modules, N_b_txt>>), FALSE)
  /\ <<S_src, N_node_modules, N_b_txt>> \notin Emitted
  /\ <<S_src, N_a_log>> \in Emitted

\* The root of the end-to-end example: .gitignore with the lines *.log and
\* !keep.log beside a.log, keep.log and b.txt, the program's file elsewhere.
LogsScenario ==
  /\ fsys.entries = TreeLogs \cup {File(<<N_gitignore>>)}
  /\ fsys.lines = RulesLogs
  /\ self_path = SelfOutside

\* C3 as stated: in the end-to-end example, with every file sound, the walk
\* emits exactly keep.log and b.txt.
C3_Original ==
  (LogsScenario /\ fsys.faults = {} /\ pc = "done") =>
     Emitted = {<<N_keep_log>>, <<N_b_txt>>}

\* C3 as amended: in the end-to-end example, with a rules file that can be
\* read, the walk emits exactly .gitignore, keep.log and b.txt: never a.log,
\* never anything else, all three once it returns, and all three as fenced
\* blocks when every file is sound.
C3_EmitsRulesFileToo ==
  (LogsScenario /\ GitignoreOf(fsys).opens /\ GitignoreOf(fsys).reads) =>
     /\ <<N_a_log>> \notin Emitted
     /\ Emitted \subseteq {<<N_gitignore>>, <<N_keep_log>>, <<N_b_txt>>}
     /\ (pc = "done" => Emitted = {<<N_gitignore>>, <<N_keep_log>>, <<N_b_txt>>})
     /\ (pc = "done" /\ fsys.faults = {} =>
           /\ Blocks = {<<N_gitignore>>, <<N_keep_log>>, <<N_b_txt>>}
           /\ Len(out) = 3)

C3_Witness ==
  /\ LogsScenario
  /\ fsys.faults = {}
  /\ pc = "done"
  /\ Len(visited) = 4
  /\ Blocks = {<<N_gitignore>>, <<N_keep_log>>, <<N_b_txt>>}

EntryAt(p) == CHOOSE e \in fsys.entries : e.path = p

\* A regular file the walk is to emit: not ignored, not the program's own
\* file, under directories none of which is ignored.
Eligible(e) ==
  /\ e.kind = "file"
  /\ ~Ignored(e)
  /\ e.path # self_path
  /\ ~AncestorIgnored(e.path)

NoRepeat(q) == \A j, k \in 1..Len(q) : q[j] = q[k] => j = k

DirsEnumerable == \A f \in fsys.faults : f.kind \notin {"denied", "ioerr"}

Coverage ==
  /\ \A e \in fsys.entries : Eligible(e) => e.path \in Emitted
  /\ NoRepeat([k \in 1..Len(out) |-> out[k].path])
  /\ NoRepeat(visited)
  /\ NoRepeat(expanded)
  /\ \A k \in 1..Len(expanded) : \A e \in Children(expanded[k]) :
       \E j \in 1..Len(visited) : visited[j] = e.path

\* C4: on a tree whose directories can all be enumerated, every eligible
\* regular file is eventually emitted and none twice, every child of every
\* expanded directory is visited exactly once and every directory expanded
\* at most once, by the time the work list is empty.  The walk is one
\* thread and every run of it is finite, so "eventually" is: whenever the
\* walk can take no further step, it has returned with all of this done.
C4_ExactlyOnceCoverage ==
  (DirsEnumerable /\ pc # "idle" /\ ~ENABLED Next) => (pc = "done" /\ Coverage)

\* C8: no error escapes the traversal; a regular file that cannot be opened,
\* read or resolved yields an error line on the output and on the diagnostic
\* channel, and the walk goes on, so that every other eligible file is
\* emitted by the time it returns.
C8_ErrorResilience ==
  /\ pc # "aborted"
  /\ \A k \in 1..Len(visited) :
       LET e == EntryAt(visited[k])
       IN (e.kind = "file" /\ ~Ignored(e) /\ ~IsSelf(e) /\ Fault(e.path) # "none") =>
            /\ \E j \in 1..Len(out) : out[j] = [kind |-> "error", path |-> e.path]
            /\ \E j \in 1..Len(cerr) : cerr[j] = [kind |-> "error", path |-> e.path]
  /\ (pc = "done" /\ DirsEnumerable =>
        \A e \in fsys.entries : Eligible(e) => e.path \in Emitted)

====
